---- MODULE Spec2Model ----
(***************************************************************************)
(* Guzzle: task declaration, dependency resolution, hand-over to gulp and  *)
(* the tracking of task lifecycle state, modelled from the source of       *)
(* guzzle (src/unnamed/part_000, the version with State, runOnce and the   *)
(* asynchronous graph output; src/guzzle.js is its earlier version).       *)
(*                                                                         *)
(* gulp (the orchestrator), lodash's debounce, node streams and viz.js are *)
(* external: they appear as the environment that calls guzzle's handlers.  *)
(***************************************************************************)
EXTENDS Integers, Sequences, FiniteSets, TLC

\* ------------------------------------------------------------------ bounds
MaxTasks == 2          \* tasks declared before gulp.start
MaxDepEntries == 2     \* dependency entries over the whole registry
MaxTime == 3           \* the clock (new Date()) runs from 1 to MaxTime
MaxSignals == 5        \* scheduler signals (start, stop, err) delivered
MaxStreams == 3        \* streams created by read() over a run
MaxGraphWrites == 2    \* graph files written over the life of the process

\* --------------------------------------------------------------- constants
\* const State = {...}
NOT_STARTED == "not_started"
STARTED == "started"
DONE == "done"
ERROR == "error"
State == {NOT_STARTED, STARTED, DONE, ERROR}

\* this._started = null (and the undefined _ended): a timestamp that is not set
NoTime == 0
\* this._stream = null
NoStream == 0

\* no event yet
NoEvent == [type |-> "", task |-> ""]
\* no _onDoneFunction has returned yet
NoReturn == [task |-> 0, kind |-> "", stream |-> 0, result |-> ""]
\* what a user's function may return: nothing, or a promise
Results == {"undefined", "promise"}

\* Names a caller gives to tasks, and the strings it gives as dependencies.
TaskNames == {"a", "b"}
DepStrings == {"a", "missing"}
\* Values of options.taskGraph: absent, or a file name (its characters).
GraphFilenames == {<<>>, <<"g", ".", "s", "v", "g">>}

VARIABLES
    guzzleTasks,    \* const guzzleTasks = []: the GuzzleTask objects, in declaration order
    graphFilename,  \* let graphFilename
    onFinish,       \* options.onFinish was given
    pc,             \* where gulp.start is: "declare", "makeGulpTasks", "outputTaskGraph",
                    \* "oldStart", "started", "thrown"
    cursor,         \* index of the task makeGulpTasks' forEach is at
    thrown,         \* the Error thrown out of gulp.start, <<>> when none
    gulpTasks,      \* gulp.tasks: name -> what gulp.task registered, and its running flag
    graphPending,   \* outputTaskGraph awaits viz.renderString: the DOT text, <<>> when none
    graphFile,      \* what fs.writeFileSync wrote, one entry per call, oldest first
    started,        \* oldStart.apply(gulp, arguments) was called
    now,            \* the clock read by new Date()
    signals,        \* number of scheduler signals delivered so far
    pendingCall,    \* names whose task_start was emitted and whose function is not yet called
    ran,            \* names whose function gulp has called at least once
    bodyCalls,      \* per task index: how often the user's onDoneFunction was invoked
    callbackCalls,  \* per task index: how often the wrapper called callback() itself
    debouncePending,\* the debounced task_stop listener has a timer running
    onFinishCalls,  \* how often onFinish() was invoked
    lastEvent,      \* the last event gulp emitted (or the onFinish call), for the claims
    streams,        \* the streams created so far (see the stream section)
    returned        \* what the last call of a task's _onDoneFunction returned

vars == <<guzzleTasks, graphFilename, onFinish, pc, cursor, thrown, gulpTasks,
          graphPending, graphFile, started, now, signals, pendingCall, ran, bodyCalls,
          callbackCalls, debouncePending, onFinishCalls, lastEvent, streams,
          returned>>

startVars == <<pc, cursor, thrown, gulpTasks, graphPending, graphFile, started>>
runVars == <<now, signals, pendingCall, ran, bodyCalls, callbackCalls, debouncePending,
             onFinishCalls, lastEvent, returned>>

\* ------------------------------------------------------------ dependencies
\* A dependency entry is a name string or a GuzzleTask object (its index in
\* guzzleTasks, where the constructor pushes every object it creates).
StrDep(s) == [ref |-> 0, str |-> s]
TaskDep(i) == [ref |-> i, str |-> ""]
\* typeof dependantTask === 'string'
IsString(d) == d.ref = 0
\* null, undefined and '' are the falsy entries _.compact drops
IsFalsy(d) == d.ref = 0 /\ d.str = ""

\* parseTaskArguments: depends = _.compact(depends)
parseTaskArguments(depends) == SelectSeq(depends, LAMBDA d : ~IsFalsy(d))

\* (mutant of RenameSubTasks: sub-tasks keep their names)
RenameSubTasksNoPrefix(tasks, parentName, dependencies) == tasks

\* The constructor's dependencies.map: every dependency given as an object is
\* taken for a sub-task and gets the parent's name in front of its own.
RECURSIVE RenameSubTasks(_, _, _)
RenameSubTasks(tasks, parentName, dependencies) ==
    IF dependencies = <<>> THEN tasks
    ELSE LET d == Head(dependencies)
             renamed == IF IsString(d) THEN tasks
                        ELSE [tasks EXCEPT ![d.ref].name = parentName \o "." \o @]
         IN  RenameSubTasks(renamed, parentName, Tail(dependencies))

\* new GuzzleTask(name, dependencies, onDoneFunction, { runOnce })
GuzzleTask(tasks, name, dependencies, hasBody, runOnce) ==
    Append(RenameSubTasks(tasks, name, dependencies),
           [name |-> name,
            stream |-> NoStream,
            started |-> NoTime,
            ended |-> NoTime,
            state |-> NOT_STARTED,
            runOnce |-> runOnce,
            dependencies |-> dependencies,
            hasBody |-> hasBody])

\* findGuzzleTask / _.find(guzzleTasks, { _name }): index of the first task of
\* that name, 0 when there is none
findGuzzleTask(tasks, taskName) ==
    IF \E i \in 1..Len(tasks) : tasks[i].name = taskName
    THEN CHOOSE i \in 1..Len(tasks) :
            /\ tasks[i].name = taskName
            /\ \A j \in 1..(i - 1) : tasks[j].name # taskName
    ELSE 0

DepEntries(tasks) ==
    LET RECURSIVE Sum(_)
        Sum(i) == IF i = 0 THEN 0 ELSE Len(tasks[i].dependencies) + Sum(i - 1)
    IN  Sum(Len(tasks))

\* Sequences over S of length at most n
SeqUpTo(S, n) == UNION {[1..k -> S] : k \in 0..n}

\* ------------------------------------------------------------- declaration
\* guzzle.task / guzzle.taskOnce, called while the gulpfile loads
Declare(name, depends, hasBody, runOnce) ==
    /\ pc = "declare"
    /\ Len(guzzleTasks) < MaxTasks
    /\ guzzleTasks' = GuzzleTask(guzzleTasks, name, parseTaskArguments(depends),
                                 hasBody, runOnce)
    /\ DepEntries(guzzleTasks') <= MaxDepEntries
    /\ UNCHANGED <<graphFilename, onFinish, startVars, runVars, streams>>

\* ----------------------------------------------------------------- startup
\* (mutant of NotFoundError: the message without the interpolated name)
NotFoundErrorNoName(dependantTask) == <<"task not found: ", "">>

\* `task not found: ${dependantTask}`: the template's text and the value it
\* interpolates, kept apart
NotFoundError(dependantTask) == <<"task not found: ", dependantTask>>

\* the string dependencies of a task that _.find cannot resolve, by position
Unresolved(tasks, i) ==
    {k \in 1..Len(tasks[i].dependencies) :
        /\ IsString(tasks[i].dependencies[k])
        /\ findGuzzleTask(tasks, tasks[i].dependencies[k].str) = 0}

\* (mutant of ResolveDep: every name is taken for the first task declared)
ResolveDepFirstTask(tasks, d) == IF IsString(d) THEN TaskDep(1) ELSE d

\* the map callback of makeGulpTasks: a string becomes the task of that name
ResolveDep(tasks, d) == IF IsString(d) THEN TaskDep(findGuzzleTask(tasks, d.str)) ELSE d

\* _.map(guzzleTask._dependencies, '_name')
DepNames(tasks, dependencies) ==
    [k \in 1..Len(dependencies) |-> tasks[dependencies[k].ref].name]

\* gulp.task(name, dep, fn): fn is the task's _onDoneFunction (the index of the
\* task that owns it), 0 when the task was declared without a function
GulpTask(registered, name, dep, fn) ==
    (name :> [dep |-> dep, fn |-> fn, running |-> FALSE]) @@ registered

\* path.extname(graphFilename).substr(1): what follows the last '.'
ExtName(file) ==
    LET dots == {k \in 1..Len(file) : file[k] = "."}
        last == CHOOSE k \in dots : \A m \in dots : m <= k
    IN  IF dots = {} \/ last = 1 THEN <<>> ELSE SubSeq(file, last + 1, Len(file))

\* (mutant of NodeLine: the shape follows the function, the style the dependencies)
NodeLineSwapped(task) ==
    "\"" \o task.name \o "\" ["
        \o "shape=" \o (IF task.hasBody THEN "box" ELSE "ellipse")
        \o ",style=" \o (IF Len(task.dependencies) # 0 THEN "solid" ELSE "dashed")
        \o "];"

\* the attributes and the node line of one task in outputTaskGraph
NodeLine(task) ==
    "\"" \o task.name \o "\" ["
        \o "shape=" \o (IF Len(task.dependencies) # 0 THEN "box" ELSE "ellipse")
        \o ",style=" \o (IF task.hasBody THEN "solid" ELSE "dashed")
        \o "];"

\* `"${guzzleTask._name}" -> "${dependency._name}";`
EdgeLine(task, dependency) ==
    "\"" \o task.name \o "\" -> \"" \o dependency.name \o "\";"

\* (mutant of TaskLines: the edges are pushed before the node)
TaskLinesEdgesFirst(tasks, i) ==
    [k \in 1..Len(tasks[i].dependencies) |->
        EdgeLine(tasks[i], tasks[tasks[i].dependencies[k].ref])]
    \o <<NodeLine(tasks[i])>>

\* the lines outputTaskGraph pushes for one task: its node, then its edges
TaskLines(tasks, i) ==
    <<NodeLine(tasks[i])>> \o
    [k \in 1..Len(tasks[i].dependencies) |->
        EdgeLine(tasks[i], tasks[tasks[i].dependencies[k].ref])]

\* the result array of outputTaskGraph
RECURSIVE GraphBody(_, _)
GraphBody(tasks, i) ==
    IF i > Len(tasks) THEN <<>> ELSE TaskLines(tasks, i) \o GraphBody(tasks, i + 1)

GraphText(tasks) == <<"digraph G {">> \o GraphBody(tasks, 1) \o <<"}">>

\* gulp.start = function() {: the patched entry point is entered
GulpStart ==
    /\ pc = "declare"
    /\ pc' = "makeGulpTasks"
    /\ cursor' = 1
    /\ UNCHANGED <<guzzleTasks, graphFilename, onFinish, thrown, gulpTasks,
                   graphPending, graphFile, started, runVars, streams>>

\* (mutant of makeGulpTasks: gulp.task is called before the dependencies are
\* mapped, so the task whose dependency is missing is defined in gulp too)
makeGulpTasksDefineFirst ==
    /\ pc = "makeGulpTasks"
    /\ cursor <= Len(guzzleTasks)
    /\ LET i == cursor
           bad == Unresolved(guzzleTasks, i)
       IN  IF bad # {} THEN
               LET k == CHOOSE k \in bad : \A m \in bad : k <= m
               IN  /\ thrown' = NotFoundError(guzzleTasks[i].dependencies[k].str)
                   /\ pc' = "thrown"
                   /\ gulpTasks' = GulpTask(gulpTasks, guzzleTasks[i].name, <<>>,
                                            IF guzzleTasks[i].hasBody THEN i ELSE 0)
                   /\ UNCHANGED <<guzzleTasks, cursor>>
           ELSE
               LET resolved == [k \in 1..Len(guzzleTasks[i].dependencies) |->
                                   ResolveDep(guzzleTasks, guzzleTasks[i].dependencies[k])]
               IN  /\ guzzleTasks' = [guzzleTasks EXCEPT ![i].dependencies = resolved]
                   /\ gulpTasks' = GulpTask(gulpTasks, guzzleTasks[i].name,
                                            DepNames(guzzleTasks, resolved),
                                            IF guzzleTasks[i].hasBody THEN i ELSE 0)
                   /\ cursor' = cursor + 1
                   /\ UNCHANGED <<thrown, pc>>
    /\ UNCHANGED <<graphFilename, onFinish, graphPending, graphFile, started,
                   runVars, streams>>

\* one iteration of makeGulpTasks' forEach: the task's dependencies are mapped
\* (the first string with no task throws, before the assignment) and the task
\* is defined in gulp
makeGulpTasks ==
    /\ pc = "makeGulpTasks"
    /\ cursor <= Len(guzzleTasks)
    /\ LET i == cursor
           bad == Unresolved(guzzleTasks, i)
       IN  IF bad # {} THEN
               LET k == CHOOSE k \in bad : \A m \in bad : k <= m
               IN  /\ thrown' = NotFoundError(guzzleTasks[i].dependencies[k].str)
                   /\ pc' = "thrown"
                   /\ UNCHANGED <<guzzleTasks, gulpTasks, cursor>>
           ELSE
               LET resolved == [k \in 1..Len(guzzleTasks[i].dependencies) |->
                                   ResolveDep(guzzleTasks, guzzleTasks[i].dependencies[k])]
               IN  /\ guzzleTasks' = [guzzleTasks EXCEPT ![i].dependencies = resolved]
                   /\ gulpTasks' = GulpTask(gulpTasks, guzzleTasks[i].name,
                                            DepNames(guzzleTasks, resolved),
                                            IF guzzleTasks[i].hasBody THEN i ELSE 0)
                   /\ cursor' = cursor + 1
                   /\ UNCHANGED <<thrown, pc>>
    /\ UNCHANGED <<graphFilename, onFinish, graphPending, graphFile, started,
                   runVars, streams>>

\* makeGulpTasks returned; if (graphFilename) chooses the next step of gulp.start
makeGulpTasksReturn ==
    /\ pc = "makeGulpTasks"
    /\ cursor > Len(guzzleTasks)
    /\ pc' = IF graphFilename # <<>> THEN "outputTaskGraph" ELSE "oldStart"
    /\ UNCHANGED <<guzzleTasks, graphFilename, onFinish, cursor, thrown, gulpTasks,
                   graphPending, graphFile, started, runVars, streams>>

\* outputTaskGraph() up to its await: the DOT text is built and handed to
\* viz.renderString; the async function returns a promise gulp.start drops
outputTaskGraph ==
    /\ pc = "outputTaskGraph"
    /\ graphPending' = GraphText(guzzleTasks)
    /\ pc' = "oldStart"
    /\ UNCHANGED <<guzzleTasks, graphFilename, onFinish, cursor, thrown, gulpTasks,
                   graphFile, started, runVars, streams>>

\* oldStart.apply(gulp, arguments): the orchestrator starts its run
oldStart ==
    /\ pc = "oldStart"
    /\ started' = TRUE
    /\ pc' = "started"
    /\ UNCHANGED <<guzzleTasks, graphFilename, onFinish, cursor, thrown, gulpTasks,
                   graphPending, graphFile, runVars, streams>>

\* the continuation of outputTaskGraph after await: fs.writeFileSync. A
\* continuation runs only once the synchronous gulp.start has returned.
writeGraphFile ==
    /\ graphPending # <<>>
    /\ pc = "started"
    /\ graphFile' = Append(graphFile,
                           [format |-> ExtName(graphFilename), dot |-> graphPending])
    /\ graphPending' = <<>>
    /\ UNCHANGED <<guzzleTasks, graphFilename, onFinish, pc, cursor, thrown, gulpTasks,
                   started, runVars, streams>>

\* guzzle.watch is gulp.watch: a watched file changed and gulp.watch, given task
\* names, calls gulp.start again, which is the patched function. A file event is
\* a new turn of the event loop, so the continuation of an earlier
\* outputTaskGraph has run before it.
watch ==
    /\ pc = "started"
    /\ graphPending = <<>>
    /\ Len(graphFile) < MaxGraphWrites
    /\ pc' = "makeGulpTasks"
    /\ cursor' = 1
    /\ UNCHANGED <<guzzleTasks, graphFilename, onFinish, thrown, gulpTasks,
                   graphPending, graphFile, started, runVars, streams>>

\* guzzle(plugins, { taskGraph }) has been called; nothing is declared
InitStart ==
    /\ guzzleTasks = <<>>
    /\ graphFilename \in GraphFilenames
    /\ onFinish = FALSE
    /\ pc = "declare"
    /\ cursor = 0
    /\ thrown = <<>>
    /\ gulpTasks = <<>>
    /\ graphPending = <<>>
    /\ graphFile = <<>>
    /\ started = FALSE
    /\ now = 1
    /\ signals = 0
    /\ pendingCall = {}
    /\ ran = {}
    /\ bodyCalls = <<>>
    /\ callbackCalls = <<>>
    /\ debouncePending = FALSE
    /\ onFinishCalls = 0
    /\ lastEvent = NoEvent
    /\ streams = <<>>
    /\ returned = NoReturn

\* what a caller may pass as one dependency: a name, an empty entry, or a task
\* object it declared before
DepChoices == {StrDep(s) : s \in DepStrings \cup {""}}
                  \cup {TaskDep(i) : i \in 1..Len(guzzleTasks)}

NextStart ==
    \/ \E name \in TaskNames, hasBody \in BOOLEAN :
          \E depends \in SeqUpTo(DepChoices, MaxDepEntries - DepEntries(guzzleTasks)) :
              Declare(name, depends, hasBody, FALSE)
    \/ GulpStart
    \/ makeGulpTasks
    \/ makeGulpTasksReturn
    \/ outputTaskGraph
    \/ oldStart
    \/ writeGraphFile
    \/ watch

StartSpec == InitStart /\ [][NextStart]_vars

\* ------------------------------------------------------- claims on startup
\* the error names s: s is one of the values its message interpolates
Names(error, s) == \E k \in 2..Len(error) : error[k] = s

\* the first dependency of the task makeGulpTasks stopped at that has no task
MissingDependency ==
    LET bad == Unresolved(guzzleTasks, cursor)
    IN  guzzleTasks[cursor].dependencies[CHOOSE k \in bad : \A m \in bad : k <= m].str

\* C4 as the spec states it: the error of a failed resolution identifies the
\* missing dependency and also the task that references it.
C4_ErrorNamesDependencyAndTask ==
    pc = "thrown" =>
        /\ Names(thrown, MissingDependency)
        /\ Names(thrown, guzzleTasks[cursor].name)

\* C4 (amended): resolution fails exactly at a string dependency that is the
\* name of no declared task, with the error "task not found: <dependency>",
\* which identifies the missing dependency only; a resolution that did not
\* fail left no unresolved entry behind.
C4_ErrorNamesDependency ==
    /\ pc = "thrown" =>
          /\ Unresolved(guzzleTasks, cursor) # {}
          /\ findGuzzleTask(guzzleTasks, MissingDependency) = 0
          /\ thrown = <<"task not found: ", MissingDependency>>
    /\ pc \in {"outputTaskGraph", "oldStart", "started"} =>
          \A i \in 1..Len(guzzleTasks) :
              \A k \in 1..Len(guzzleTasks[i].dependencies) :
                  guzzleTasks[i].dependencies[k].ref \in 1..Len(guzzleTasks)

\* C4 witness: the second task declared references "missing" and resolution
\* failed there.
C4_Witness ==
    /\ pc = "thrown"
    /\ cursor = 2
    /\ thrown = <<"task not found: ", "missing">>

NoGraphEmitted == graphPending = <<>> /\ graphFile = <<>>

ResolutionFinished ==
    \/ pc \in {"outputTaskGraph", "oldStart", "started"}
    \/ pc = "makeGulpTasks" /\ cursor > Len(guzzleTasks)

\* C10: the trigger's order: resolution of every task first, then the graph is
\* emitted and written, and only then the scheduler's run starts; so once the
\* run has started with a graph path configured, the graph file is written.
C10_GraphWrittenBeforeRun ==
    /\ ~NoGraphEmitted => ResolutionFinished
    /\ started => ResolutionFinished
    /\ started /\ graphFilename # <<>> => graphFile # <<>>

\* C10's clause on registration, on its own: no task is registered with the
\* scheduler before the resolution of all tasks has finished.
C10_NoRegistrationBeforeResolved ==
    DOMAIN gulpTasks # {} => ResolutionFinished

\* ------------------------------------------------------------- lifecycle
\* The handlers guzzle(plugins, options) subscribes to gulp's task_start,
\* task_stop and task_err, and the completion wrapper gulp calls. gulp decides
\* when a signal comes. As the orchestrator does, it starts a task only while the
\* task is not running, and signals the end of a task (task_stop or task_err)
\* only after it has called the task's function; the end of a task may be
\* signalled more than once (a callback and a stream both completing). It starts
\* a task only after the dependencies gulp.task was given for it have completed.

\* (mutant of OnTaskStart: the start time is not stamped)
OnTaskStartNoStamp(task, time) == [task EXCEPT !.state = STARTED]

\* gulp.on('task_start', ...): task._state = STARTED; task._started = new Date()
OnTaskStart(task, time) == [task EXCEPT !.state = STARTED, !.started = time]

\* (mutant of OnTaskStop: without the `if (task._state === State.DONE) return`)
OnTaskStopNoGuard(task, time) == [task EXCEPT !.state = DONE, !.ended = time]

\* gulp.on('task_stop', ...)
OnTaskStop(task, time) ==
    IF task.state = DONE THEN task
    ELSE [task EXCEPT !.state = DONE, !.ended = time]

\* (mutant of OnTaskErr: the task is put back to be run again)
OnTaskErrReset(task) == [task EXCEPT !.state = NOT_STARTED]

\* gulp.on('task_err', ...)
OnTaskErr(task) == [task EXCEPT !.state = ERROR]

\* (mutant of RunsBody: the wrapper without its runOnce short cut)
RunsBodyAlways(task) == TRUE

\* the wrapper's `if (this._runOnce && this._state !== State.NOT_STARTED)
\* return callback()`: whether it goes on to call the user's function
RunsBody(task) == ~(task.runOnce /\ task.state # NOT_STARTED)

\* (mutant of NoTaskRunning: onFinish is called without looking at the tasks)
NoTaskRunningUnchecked(registered) == TRUE

\* !_.some(gulp.tasks, t => t.running)
NoTaskRunning(registered) == ~\E n \in DOMAIN registered : registered[n].running

\* printTasks: task._started ? (task._ended || now) - task._started : 0, the
\* elapsed time a snapshot taken at `time` shows for the task
Elapsed(task, time) ==
    IF task.started # NoTime
    THEN (IF task.ended # NoTime THEN task.ended ELSE time) - task.started
    ELSE 0

\* the dependencies handed to gulp.task for n have run to their end
DependenciesDone(n) ==
    \A k \in 1..Len(gulpTasks[n].dep) :
        guzzleTasks[findGuzzleTask(guzzleTasks, gulpTasks[n].dep[k])].state = DONE

\* the orchestrator sets task.running and emits task_start; guzzle's handler runs
TaskStart(n) ==
    /\ started
    /\ signals < MaxSignals
    /\ n \in DOMAIN gulpTasks
    /\ ~gulpTasks[n].running
    /\ DependenciesDone(n)
    /\ LET i == findGuzzleTask(guzzleTasks, n)
       IN  guzzleTasks' = [guzzleTasks EXCEPT ![i] = OnTaskStart(@, now)]
    /\ gulpTasks' = [gulpTasks EXCEPT ![n].running = TRUE]
    /\ pendingCall' = pendingCall \cup {n}
    /\ signals' = signals + 1
    /\ lastEvent' = [type |-> "task_start", task |-> n]
    /\ UNCHANGED <<graphFilename, onFinish, pc, cursor, thrown, graphPending, graphFile,
                   started, now, ran, bodyCalls, callbackCalls, debouncePending,
                   onFinishCalls, streams, returned>>

\* ---- streams
\* A stream record stands for the source gulp.src returned to one read() call
\* together with what the user's function pipes it into: `paused` is the
\* source's pause, the stream the task's handle holds is the last of the chain,
\* and `kind` says which completion events that one emits: a Writable emits
\* 'finish', a Readable 'end', a Duplex 'finish' and then 'end'.
StreamKinds == {"writable", "readable", "duplex"}

\* the stream has signalled completion
Completed(stream) == stream.finished \/ stream.ended

\* a source that emits data: neither paused nor completed
Flowing(stream) == ~stream.paused /\ ~Completed(stream)

\* GuzzleTask.read: the new source becomes the task's stream; if the task had a
\* stream, the new source is paused and resumed by the old stream's 'finish'
read(tasksAndStreams, i, kind) ==
    LET tasks == tasksAndStreams[1]
        strs == tasksAndStreams[2]
        oldStream == tasks[i].stream
        newStream == Len(strs) + 1
        listening == IF oldStream # NoStream
                     THEN [strs EXCEPT ![oldStream].resumes = @ \cup {newStream}]
                     ELSE strs
    IN  <<[tasks EXCEPT ![i].stream = newStream],
          Append(listening, [task |-> i, kind |-> kind, paused |-> oldStream # NoStream,
                             finished |-> FALSE, ended |-> FALSE,
                             resumes |-> {}, resets |-> FALSE])>>

\* the user's function: the read() calls it makes, one after the other, each
\* with the kind of stream its chain (pipe, write, on) leaves in the handle
RECURSIVE Body(_, _, _)
Body(tasksAndStreams, i, reads) ==
    IF reads = <<>> THEN tasksAndStreams
    ELSE Body(read(tasksAndStreams, i, Head(reads)), i, Tail(reads))

\* the wrapper after the user's function returned: if (this._stream) it
\* subscribes to the stream's 'finish' and 'end' to set this._stream = null
ResetOnCompletion(tasksAndStreams, i) ==
    LET tasks == tasksAndStreams[1]
        strs == tasksAndStreams[2]
    IN  IF tasks[i].stream # NoStream
        THEN <<tasks, [strs EXCEPT ![tasks[i].stream].resets = TRUE]>>
        ELSE tasksAndStreams

\* this._onDoneFunction past its runOnce guard
onDoneFunction(tasks, strs, i, reads) ==
    ResetOnCompletion(Body(<<tasks, strs>>, i, reads), i)

\* the listeners of a completion event of stream s: the 'finish' listeners of
\* read() resume the sources that wait for s; the wrapper's listener empties the
\* handle of the task that owns s
Resume(strs, waiting) ==
    [q \in 1..Len(strs) |-> IF q \in waiting THEN [strs[q] EXCEPT !.paused = FALSE]
                            ELSE strs[q]]

ResetHandle(tasks, stream) ==
    IF stream.resets THEN [tasks EXCEPT ![stream.task].stream = NoStream] ELSE tasks

\* stream s emits 'finish'
StreamFinish(s) ==
    /\ s \in 1..Len(streams)
    /\ streams[s].kind \in {"writable", "duplex"}
    /\ ~streams[s].paused
    /\ ~streams[s].finished
    /\ streams' = Resume([streams EXCEPT ![s].finished = TRUE], streams[s].resumes)
    /\ guzzleTasks' = ResetHandle(guzzleTasks, streams[s])
    /\ UNCHANGED <<graphFilename, onFinish, startVars, runVars>>

\* stream s emits 'end'
StreamEnd(s) ==
    /\ s \in 1..Len(streams)
    /\ streams[s].kind \in {"readable", "duplex"}
    /\ ~streams[s].paused
    /\ streams[s].kind = "duplex" => streams[s].finished
    /\ ~streams[s].ended
    /\ streams' = [streams EXCEPT ![s].ended = TRUE]
    /\ guzzleTasks' = ResetHandle(guzzleTasks, streams[s])
    /\ UNCHANGED <<graphFilename, onFinish, startVars, runVars>>

\* (mutant of WrapperReturn: `result || this._stream`)
WrapperReturnResultFirst(i, stream, result) ==
    IF result # "undefined"
    THEN [task |-> i, kind |-> "result", stream |-> NoStream, result |-> result]
    ELSE [task |-> i, kind |-> "stream", stream |-> stream, result |-> ""]

\* return this._stream || result
WrapperReturn(i, stream, result) ==
    IF stream # NoStream
    THEN [task |-> i, kind |-> "stream", stream |-> stream, result |-> ""]
    ELSE [task |-> i, kind |-> "result", stream |-> NoStream, result |-> result]

\* return callback(): what the scheduler's callback returns
CallbackReturn(i) == [task |-> i, kind |-> "callback", stream |-> NoStream, result |-> ""]

\* after task_start the orchestrator calls the function gulp.task was given: the
\* task's _onDoneFunction, or its own no-op when the task has none. `reads` are
\* the read() calls the user's function makes (none: it leaves the stream
\* alone), `result` is what the user's function returns.
CallTaskFn(n, reads, result) ==
    /\ n \in pendingCall
    /\ Len(streams) + Len(reads) <= MaxStreams
    /\ pendingCall' = pendingCall \ {n}
    /\ ran' = ran \cup {n}
    /\ LET i == gulpTasks[n].fn
       IN  IF i = 0 THEN
               /\ reads = <<>>
               /\ result = "undefined"
               /\ UNCHANGED <<bodyCalls, callbackCalls, guzzleTasks, streams, returned>>
           ELSE IF RunsBody(guzzleTasks[i]) THEN
               /\ bodyCalls' = [bodyCalls EXCEPT ![i] = @ + 1]
               /\ guzzleTasks' = onDoneFunction(guzzleTasks, streams, i, reads)[1]
               /\ streams' = onDoneFunction(guzzleTasks, streams, i, reads)[2]
               /\ returned' = WrapperReturn(i, guzzleTasks'[i].stream, result)
               /\ UNCHANGED callbackCalls
           ELSE
               /\ reads = <<>>
               /\ result = "undefined"
               /\ callbackCalls' = [callbackCalls EXCEPT ![i] = @ + 1]
               /\ returned' = CallbackReturn(i)
               /\ UNCHANGED <<bodyCalls, guzzleTasks, streams>>
    /\ UNCHANGED <<graphFilename, onFinish, startVars, now, signals,
                   debouncePending, onFinishCalls, lastEvent>>

\* the orchestrator clears task.running and emits task_stop: the debounced
\* listener (subscribed first, when onFinish is given) restarts its timer, then
\* guzzle's handler runs
TaskStop(n) ==
    /\ started
    /\ signals < MaxSignals
    /\ n \in ran
    /\ LET i == findGuzzleTask(guzzleTasks, n)
       IN  guzzleTasks' = [guzzleTasks EXCEPT ![i] = OnTaskStop(@, now)]
    /\ gulpTasks' = [gulpTasks EXCEPT ![n].running = FALSE]
    /\ debouncePending' = (onFinish \/ debouncePending)
    /\ signals' = signals + 1
    /\ lastEvent' = [type |-> "task_stop", task |-> n]
    /\ UNCHANGED <<graphFilename, onFinish, pc, cursor, thrown, graphPending, graphFile,
                   started, now, pendingCall, ran, bodyCalls, callbackCalls,
                   onFinishCalls, streams, returned>>

\* the orchestrator clears task.running and emits task_err
TaskErr(n) ==
    /\ started
    /\ signals < MaxSignals
    /\ n \in ran
    /\ LET i == findGuzzleTask(guzzleTasks, n)
       IN  guzzleTasks' = [guzzleTasks EXCEPT ![i] = OnTaskErr(@)]
    /\ gulpTasks' = [gulpTasks EXCEPT ![n].running = FALSE]
    /\ signals' = signals + 1
    /\ lastEvent' = [type |-> "task_err", task |-> n]
    /\ UNCHANGED <<graphFilename, onFinish, pc, cursor, thrown, graphPending, graphFile,
                   started, now, pendingCall, ran, bodyCalls, callbackCalls,
                   debouncePending, onFinishCalls, streams, returned>>

\* the timer of _.debounce(..., 100) expires, no task_stop having come since it
\* was started: onFinish() is called if no task of gulp is running
DebounceFire ==
    /\ debouncePending
    /\ debouncePending' = FALSE
    /\ IF NoTaskRunning(gulpTasks)
       THEN /\ onFinishCalls' = onFinishCalls + 1
            /\ lastEvent' = [type |-> "onFinish", task |-> ""]
       ELSE UNCHANGED <<onFinishCalls, lastEvent>>
    /\ UNCHANGED <<guzzleTasks, graphFilename, onFinish, startVars, now, signals,
                   pendingCall, ran, bodyCalls, callbackCalls, streams, returned>>

\* a millisecond passes
Tick ==
    /\ now < MaxTime
    /\ now' = now + 1
    /\ UNCHANGED <<guzzleTasks, graphFilename, onFinish, startVars, signals, pendingCall,
                   ran, bodyCalls, callbackCalls, debouncePending, onFinishCalls, lastEvent,
                   streams, returned>>

\* makeGulpTasks run to its end over a registry in which every name resolves
RECURSIVE Resolved(_, _)
Resolved(tasks, i) ==
    IF i > Len(tasks) THEN tasks
    ELSE Resolved([tasks EXCEPT ![i].dependencies =
                       [k \in 1..Len(tasks[i].dependencies) |->
                           ResolveDep(tasks, tasks[i].dependencies[k])]], i + 1)

RECURSIVE Registered(_, _)
Registered(tasks, i) ==
    IF i = 0 THEN <<>>
    ELSE GulpTask(Registered(tasks, i - 1), tasks[i].name,
                  DepNames(tasks, tasks[i].dependencies),
                  IF tasks[i].hasBody THEN i ELSE 0)

\* gulp.start entered again by gulp.watch (see `watch`) for task n, taken as a
\* whole: it is synchronous, so no signal comes in between. The dependencies are
\* task objects already, there is no graph file, and makeGulpTasks defines every
\* task in gulp once more, which replaces gulp's entries and so their running
\* flags; oldStart then has the orchestrator start n, as in TaskStart: a task
\* without dependencies, none of gulp's new entries having run.
watchStart(n) ==
    /\ pc = "started"
    /\ graphFilename = <<>>
    /\ pendingCall = {}
    /\ signals < MaxSignals
    /\ n \in DOMAIN gulpTasks
    /\ gulpTasks[n].dep = <<>>
    /\ LET i == findGuzzleTask(guzzleTasks, n)
           registered == Registered(Resolved(guzzleTasks, 1), Len(guzzleTasks))
       IN  /\ guzzleTasks' = [guzzleTasks EXCEPT ![i] = OnTaskStart(@, now)]
           /\ gulpTasks' = [registered EXCEPT ![n].running = TRUE]
    /\ pendingCall' = {n}
    /\ signals' = signals + 1
    /\ lastEvent' = [type |-> "task_start", task |-> n]
    /\ UNCHANGED <<graphFilename, onFinish, pc, cursor, thrown, graphPending, graphFile,
                   started, now, ran, bodyCalls, callbackCalls, debouncePending,
                   onFinishCalls, streams, returned>>

\* gulp.start has handed the declared tasks to gulp, every name resolving, after
\* guzzle(plugins, { onFinish }) subscribed the handlers
InitStarted(declared, finish) ==
    /\ guzzleTasks = Resolved(declared, 1)
    /\ gulpTasks = Registered(Resolved(declared, 1), Len(declared))
    /\ cursor = Len(declared) + 1
    /\ bodyCalls = [i \in 1..Len(declared) |-> 0]
    /\ callbackCalls = [i \in 1..Len(declared) |-> 0]
    /\ graphFilename = <<>>
    /\ onFinish = finish
    /\ pc = "started"
    /\ thrown = <<>>
    /\ graphPending = <<>>
    /\ graphFile = <<>>
    /\ started = TRUE
    /\ now = 1
    /\ signals = 0
    /\ pendingCall = {}
    /\ ran = {}
    /\ debouncePending = FALSE
    /\ onFinishCalls = 0
    /\ lastEvent = NoEvent
    /\ streams = <<>>
    /\ returned = NoReturn

\* The gulpfile declared task "a" (guzzle.task or guzzle.taskOnce, with a
\* function) and task "b" depending on "a" (with or without a function).
Init ==
    \E runOnce \in BOOLEAN, hasBody \in BOOLEAN, finish \in BOOLEAN :
        InitStarted(GuzzleTask(GuzzleTask(<<>>, "a", <<>>, TRUE, runOnce),
                               "b", <<StrDep("a")>>, hasBody, FALSE),
                    finish)

Next ==
    \/ \E n \in DOMAIN gulpTasks : TaskStart(n)
    \/ \E n \in DOMAIN gulpTasks : CallTaskFn(n, <<>>, "undefined")
    \/ \E n \in DOMAIN gulpTasks : TaskStop(n)
    \/ \E n \in DOMAIN gulpTasks : TaskErr(n)
    \/ DebounceFire
    \/ Tick
    \/ \E n \in DOMAIN gulpTasks : watchStart(n)

Spec == Init /\ [][Next]_vars

\* The gulpfile declared the tasks "a" and "b" with guzzle.task, each with a
\* function that may call read(); gulp activates them again and again (watch).
InitStream ==
    InitStarted(GuzzleTask(GuzzleTask(<<>>, "a", <<>>, TRUE, FALSE),
                           "b", <<>>, TRUE, FALSE),
                FALSE)

NextStream ==
    \/ \E n \in DOMAIN gulpTasks : TaskStart(n)
    \/ \E n \in DOMAIN gulpTasks :
          \E reads \in SeqUpTo(StreamKinds, 2), result \in Results :
              CallTaskFn(n, reads, result)
    \/ \E n \in DOMAIN gulpTasks : TaskStop(n)
    \/ \E s \in 1..Len(streams) : StreamFinish(s)
    \/ \E s \in 1..Len(streams) : StreamEnd(s)

StreamSpec == InitStream /\ [][NextStream]_vars

\* The gulpfile declared task "a" with a function (guzzle.task or
\* guzzle.taskOnce) and the barrier task "b" that depends on it; the function of
\* "a" may call read() and returns nothing or a promise.
InitWrapper ==
    \E runOnce \in BOOLEAN :
        InitStarted(GuzzleTask(GuzzleTask(<<>>, "a", <<>>, TRUE, runOnce),
                               "b", <<StrDep("a")>>, FALSE, FALSE),
                    FALSE)

WrapperSpec == InitWrapper /\ [][NextStream]_vars

\* ----------------------------------------------------- claims on lifecycle
TaskIds == 1..Len(guzzleTasks)

\* the wrapper of task i has been called this often (one call per activation)
WrapperCalls(i) == bodyCalls[i] + callbackCalls[i]

\* C1: a run-once task's user function is invoked exactly once, on its first
\* activation (start signal, then the call of its wrapper); later activations
\* only call the scheduler's callback.
C1_RunOnceBodyRunsOnFirstActivation ==
    \A i \in TaskIds :
        guzzleTasks[i].runOnce /\ guzzleTasks[i].hasBody /\ WrapperCalls(i) >= 1
            => bodyCalls[i] = 1 /\ callbackCalls[i] = WrapperCalls(i) - 1

\* C2: a run-once task's user function has been invoked at most once, whatever
\* activations, stop signals and error signals have come.
C2_RunOnceBodyAtMostOnce ==
    \A i \in TaskIds : guzzleTasks[i].runOnce => bodyCalls[i] <= 1

\* C2 witness: a run-once task has been activated twice, with a stop and an
\* error signal in between and after.
C2_Witness ==
    \E i \in TaskIds :
        /\ guzzleTasks[i].runOnce
        /\ WrapperCalls(i) >= 2
        /\ guzzleTasks[i].state = ERROR
        /\ guzzleTasks[i].ended # NoTime

\* C6: a stop signal for a task that is DONE leaves the task as it is (state,
\* startedAt, endedAt); for a task in any other state it sets DONE and stamps
\* endedAt with the current time, leaving startedAt.
C6_StopSignalIdempotent ==
    [][\A n \in DOMAIN gulpTasks :
          TaskStop(n) =>
              LET i == findGuzzleTask(guzzleTasks, n)
              IN  IF guzzleTasks[i].state = DONE
                  THEN guzzleTasks'[i] = guzzleTasks[i]
                  ELSE /\ guzzleTasks'[i].state = DONE
                       /\ guzzleTasks'[i].ended = now
                       /\ guzzleTasks'[i].started = guzzleTasks[i].started]_vars

\* C6 witness: the last signal was a stop for a task that was DONE already: its
\* endedAt is older than the clock.
C6_Witness ==
    \E i \in TaskIds :
        /\ lastEvent = [type |-> "task_stop", task |-> guzzleTasks[i].name]
        /\ guzzleTasks[i].state = DONE
        /\ guzzleTasks[i].ended < now
        /\ signals = 3

\* C7 as the spec states it: for a task that is not run-once, a start signal
\* after a completed activation moves DONE -> STARTED and the next stop moves
\* STARTED -> DONE; startedAt <= endedAt, and both are later than the previous
\* cycle's values.
C7_CycleStampsLater ==
    [][\A n \in DOMAIN gulpTasks :
          LET i == findGuzzleTask(guzzleTasks, n)
              old == guzzleTasks[i]
              new == guzzleTasks'[i]
          IN  ~old.runOnce =>
                /\ TaskStart(n) /\ old.state = DONE =>
                      /\ new.state = STARTED
                      /\ new.started = now
                      /\ new.started > old.started
                      /\ new.started > old.ended
                /\ TaskStop(n) /\ old.state = STARTED =>
                      /\ new.state = DONE
                      /\ new.ended = now
                      /\ new.started = old.started
                      /\ new.started <= new.ended
                      /\ new.ended > old.ended]_vars

\* C7 (amended): the same cycle, with startedAt and endedAt set to the clock at
\* the start and the stop signal: startedAt <= endedAt, and neither is earlier
\* than the previous cycle's values (equal when the clock has not advanced).
C7_CycleStampsNotEarlier ==
    [][\A n \in DOMAIN gulpTasks :
          LET i == findGuzzleTask(guzzleTasks, n)
              old == guzzleTasks[i]
              new == guzzleTasks'[i]
          IN  ~old.runOnce =>
                /\ TaskStart(n) /\ old.state = DONE =>
                      /\ new.state = STARTED
                      /\ new.started = now
                      /\ new.started >= old.started
                      /\ new.started >= old.ended
                /\ TaskStop(n) /\ old.state = STARTED =>
                      /\ new.state = DONE
                      /\ new.ended = now
                      /\ new.started = old.started
                      /\ new.started <= new.ended
                      /\ new.ended >= old.ended]_vars

\* C7 witness: a task that is not run-once has completed its second activation,
\* later than the first.
C7_Witness ==
    \E i \in TaskIds :
        /\ ~guzzleTasks[i].runOnce
        /\ bodyCalls[i] = 2
        /\ lastEvent = [type |-> "task_stop", task |-> guzzleTasks[i].name]
        /\ guzzleTasks[i].state = DONE
        /\ guzzleTasks[i].started = 2
        /\ guzzleTasks[i].ended = 3
        /\ signals = 4

\* C8: onFinish is invoked only by the expiry of the debounce timer, once per
\* expiry, and only at a moment when no task is STARTED (so a task that stays
\* STARTED blocks it).
C8_OnFinishDebounced ==
    [][onFinishCalls' # onFinishCalls =>
          /\ onFinishCalls' = onFinishCalls + 1
          /\ debouncePending /\ ~debouncePending'
          /\ \A i \in TaskIds : guzzleTasks[i].state # STARTED]_vars

\* C8 witness: both tasks were started and have stopped, and onFinish was
\* invoked once.
C8_Witness ==
    /\ \A i \in TaskIds : guzzleTasks[i].state = DONE /\ guzzleTasks[i].started # NoTime
    /\ signals = 4
    /\ onFinishCalls = 1
    /\ ~debouncePending

\* C9: with onFinish configured, once the last running task has ended, by a stop
\* or by an error signal, and nothing runs, onFinish is invoked after the quiet
\* period: as long as it has not been invoked since, its timer is pending.
C9_OnFinishAfterLastTaskEnds ==
    /\ onFinish
    /\ lastEvent.type \in {"task_stop", "task_err"}
    /\ NoTaskRunning(gulpTasks)
    => debouncePending

\* ------------------------------------------------------- claims on streams
\* C3: of the sources read() created for one task, a later one emits no data
\* while an earlier one has not signalled completion; so at most one of them
\* flows at a time.
C3_OneFlowingSourcePerTask ==
    \A s, t \in 1..Len(streams) :
        /\ s < t
        /\ streams[s].task = streams[t].task
        /\ ~Completed(streams[s])
        => ~Flowing(streams[t])

\* ---------------------------------------------------- claims on resolution
\* every dependency entry of every task is a task object of the registry
AllResolved ==
    \A i \in TaskIds :
        \A k \in 1..Len(guzzleTasks[i].dependencies) :
            /\ ~IsString(guzzleTasks[i].dependencies[k])
            /\ guzzleTasks[i].dependencies[k].ref \in TaskIds

\* C11: once resolution has gone through, every dependency entry is a task
\* object of the registry; the step that resolves a task replaces each string,
\* at its position, by the task of that name and leaves task objects and the
\* other tasks' lists alone; a second resolution (gulp.start entered again)
\* changes no dependency list.
C11_DependenciesResolved ==
    /\ [](ResolutionFinished \/ started => AllResolved)
    /\ [][pc = "makeGulpTasks" /\ cursor <= Len(guzzleTasks) /\ pc' # "thrown" =>
            \A i \in TaskIds :
                LET old == guzzleTasks[i].dependencies
                    new == guzzleTasks'[i].dependencies
                IN  /\ Len(new) = Len(old)
                    /\ i # cursor => new = old
                    /\ started => new = old
                    /\ i = cursor =>
                          \A k \in 1..Len(old) :
                              IF IsString(old[k])
                              THEN /\ ~IsString(new[k])
                                   /\ new[k].ref \in TaskIds
                                   /\ guzzleTasks[new[k].ref].name = old[k].str
                              ELSE new[k] = old[k]]_vars

\* C11 witness: task "b" named "a" as its dependency, and a second resolution
\* has gone through both tasks.
C11_Witness ==
    /\ started
    /\ pc = "makeGulpTasks"
    /\ cursor > Len(guzzleTasks)
    /\ Len(guzzleTasks) = 2
    /\ guzzleTasks[1].name = "a"
    /\ guzzleTasks[2].name = "b"
    /\ guzzleTasks[2].dependencies = <<TaskDep(1)>>

\* ------------------------------------------------------- claims on naming
\* a step that declares a task: the constructor has pushed a new object
Declared == pc = "declare" /\ Len(guzzleTasks') = Len(guzzleTasks) + 1

\* how often task i is given as an object in the dependency list
Occurrences(dependencies, i) ==
    Cardinality({k \in 1..Len(dependencies) : dependencies[k] = TaskDep(i)})

\* name with "parentName." put in front n times
RECURSIVE Prefixed(_, _, _)
Prefixed(parentName, n, name) ==
    IF n = 0 THEN name ELSE parentName \o "." \o Prefixed(parentName, n - 1, name)

NamesUnique ==
    \A i, j \in TaskIds : i # j => guzzleTasks[i].name # guzzleTasks[j].name

Rendered ==
    {graphFile[w].dot : w \in 1..Len(graphFile)}
        \cup (IF graphPending # <<>> THEN {graphPending} ELSE {})

\* where the node of task i stands in the description: after the opening line
\* and the nodes and edges of the tasks declared before i
RECURSIVE NodeAt(_)
NodeAt(i) ==
    IF i = 1 THEN 2 ELSE NodeAt(i - 1) + 1 + Len(guzzleTasks[i - 1].dependencies)

\* the node declarations a line may be, whatever the attributes
NodeDeclarations(name) ==
    {"\"" \o name \o "\" [shape=" \o shape \o ",style=" \o style \o "];" :
        shape \in {"box", "ellipse"}, style \in {"solid", "dashed"}}

\* C13: the description is the opening line, then for every task in declaration
\* order its node followed by one edge per element of its resolved dependency
\* list, in the order of the list, from the task to that dependency, then the
\* closing line; and nothing else.
C13_EdgesInDeclarationOrder ==
    \A g \in Rendered :
        /\ g[1] = "digraph G {"
        /\ Len(g) = NodeAt(Len(guzzleTasks) + 1)
        /\ g[Len(g)] = "}"
        /\ \A i \in TaskIds :
              /\ g[NodeAt(i)] \in NodeDeclarations(guzzleTasks[i].name)
              /\ \A k \in 1..Len(guzzleTasks[i].dependencies) :
                    g[NodeAt(i) + k] =
                        "\"" \o guzzleTasks[i].name \o "\" -> \""
                             \o guzzleTasks[guzzleTasks[i].dependencies[k].ref].name
                             \o "\";"

\* C13 witness: a graph was written for two tasks of different names, the
\* second with a dependency.
C13_Witness ==
    /\ Len(graphFile) >= 1
    /\ Len(guzzleTasks) = 2
    /\ guzzleTasks[1].name # guzzleTasks[2].name
    /\ guzzleTasks[2].dependencies # <<>>

\* C14: every task has one node declaration; its shape is box if the task has
\* dependencies (empty entries dropped) and ellipse if not, its style solid if
\* the task was declared with a function and dashed if not.
C14_NodeShapeAndStyle ==
    /\ \A i \in TaskIds :
          \A k \in 1..Len(guzzleTasks[i].dependencies) :
              ~IsFalsy(guzzleTasks[i].dependencies[k])
    /\ \A g \in Rendered :
          \A i \in TaskIds :
              LET name == guzzleTasks[i].name
                  shape == IF guzzleTasks[i].dependencies = <<>> THEN "ellipse" ELSE "box"
                  style == IF guzzleTasks[i].hasBody THEN "solid" ELSE "dashed"
              IN  /\ g[NodeAt(i)] =
                        "\"" \o name \o "\" [shape=" \o shape \o ",style=" \o style \o "];"
                  /\ \A l \in 1..Len(g) :
                        g[l] \in NodeDeclarations(name) =>
                            \E j \in TaskIds : l = NodeAt(j) /\ guzzleTasks[j].name = name

\* C14 witness: a graph is rendered for a task with a function and no
\* dependency and a task without function that has a dependency.
C14_Witness ==
    /\ graphPending # <<>>
    /\ \E i, j \in TaskIds :
          /\ guzzleTasks[i].hasBody /\ guzzleTasks[i].dependencies = <<>>
          /\ ~guzzleTasks[j].hasBody /\ guzzleTasks[j].dependencies # <<>>

\* C15: with a graph file configured, the graph is rendered and written exactly
\* once, when the run starts: once the run has started and no rendering is
\* under way there is one written graph, and a later activation through watch
\* adds none.
C15_GraphWrittenOnce ==
    graphFilename # <<>> /\ started /\ graphPending = <<>> => Len(graphFile) = 1

\* C16: a task's handle is emptied only by a completion event ('finish' or
\* 'end') of the stream it holds at that moment; the completion of a stream of
\* an earlier activation never empties a handle that holds a newer stream.
C16_HandleResetOnlyByHeldStream ==
    [][\A i \in TaskIds :
          guzzleTasks[i].stream # NoStream /\ guzzleTasks'[i].stream = NoStream =>
              LET held == guzzleTasks[i].stream
              IN  \/ streams'[held].finished /\ ~streams[held].finished
                  \/ streams'[held].ended /\ ~streams[held].ended]_vars

\* C17: a source that read() paused behind an earlier stream of its task is
\* resumed when that stream signals completion, by 'finish' or by 'end': once
\* the earlier stream has completed, no source that waits for it is paused.
C17_PausedSourceResumed ==
    \A s \in 1..Len(streams) :
        \A q \in streams[s].resumes :
            Completed(streams[s]) => ~streams[q].paused

\* C18: a call of the wrapper that runs the user's function returns the task's
\* stream handle if the handle is not empty when the function has returned,
\* whatever the function returned, and the function's own return value only if
\* the handle is empty.
C18_WrapperPrefersStream ==
    [][\A n \in DOMAIN gulpTasks :
          \A reads \in SeqUpTo(StreamKinds, 2), result \in Results :
              LET i == gulpTasks[n].fn
              IN  CallTaskFn(n, reads, result) /\ i # 0 /\ bodyCalls'[i] # bodyCalls[i] =>
                      /\ returned'.task = i
                      /\ IF guzzleTasks'[i].stream # NoStream
                         THEN /\ returned'.kind = "stream"
                              /\ returned'.stream = guzzleTasks'[i].stream
                         ELSE /\ returned'.kind = "result"
                              /\ returned'.result = result]_vars

\* C18 witness: the function of a task was called a second time and the
\* wrapper returned the stream in the handle.
C18_Witness ==
    \E i \in TaskIds :
        /\ bodyCalls[i] = 2
        /\ returned.task = i
        /\ returned.kind = "stream"
        /\ returned.stream = guzzleTasks[i].stream

\* --------------------------------------------------- claims on the states
\* a step in which the state of a task changes only along the given edges
ChangesAlong(edges) ==
    \A i \in TaskIds :
        guzzleTasks'[i].state # guzzleTasks[i].state =>
            <<guzzleTasks[i].state, guzzleTasks'[i].state>> \in edges

Prints(n) ==
    \/ TaskStart(n)
    \/ TaskErr(n)
    \/ TaskStop(n) /\ guzzleTasks[findGuzzleTask(guzzleTasks, n)].state # DONE

\* C20: in every snapshot the elapsed time of a task that has started is
\* measured from startedAt to endedAt if the task is finished (DONE) and to the
\* current time otherwise, so also while it runs in a later activation; it is
\* never negative.
C20_ElapsedOfCurrentActivation ==
    [][\A n \in DOMAIN gulpTasks :
          Prints(n) =>
              \A i \in TaskIds :
                  LET task == guzzleTasks'[i]
                  IN  task.started # NoTime =>
                          /\ Elapsed(task, now') =
                                (IF task.state = DONE THEN task.ended ELSE now')
                                    - task.started
                          /\ Elapsed(task, now') >= 0]_vars

====
